---- MODULE Spec2Model ----
(***************************************************************************)
(* A model of the reference-counted smart pointers of src/shared_ptr.h and *)
(* src/shared_ptr.cpp: control_block (shared_cnt, weak_cnt), its two       *)
(* variants cb_separate (raw pointer + deleter) and cb_inplace (embedded   *)
(* object), shared_ptr (owning) and weak_ptr (observer).                   *)
(*                                                                         *)
(* Owning pointers live in the slots SPs, observers in the slots WPs; a    *)
(* slot that is not live holds no constructed pointer object.  Every       *)
(* managed object is of one type that has one weak_ptr data member         *)
(* (null until assigned), so that the object's destructor, run inside      *)
(* delete_object, destroys that member.                                    *)
(*                                                                         *)
(* Spec is the single-threaded program: every action is one whole          *)
(* operation.  SpecRace is two threads that share one control block and    *)
(* interleave at each access to its counts.                                *)
(***************************************************************************)
EXTENDS Integers, Sequences, FiniteSets, TLC

\* Bounds of the model.
NumSP == 2
NumWP == 2
NumCB == 2
NumObj == 2
\* At most this many pointer objects (owners and observers) are alive at once.
MaxLive == 3
\* In SpecRace, each thread starts at most this many operations.
MaxThreadOps == 3

SPs == 1..NumSP
WPs == 1..NumWP
CBs == 1..NumCB
Objs == 1..NumObj

\* nullptr, for raw pointers and for control-block links.
Null == 0
\* The address of a sub-object: a raw pointer that is not the address of any
\* managed object (the addresses of the managed objects are Objs).
SubObj == NumObj + 1

VARIABLES sp, wp, cbs, objs, faults, last, thr, races
vars == <<sp, wp, cbs, objs, faults, last, thr, races>>
\* The state of the two-thread runs (SpecRace below): the threads, and the
\* races that have happened.
rvars == <<thr, races>>

\* shared_ptr() : ptr(nullptr), cb(nullptr); also the state of a moved-from pointer.
NullPtr == [ptr |-> Null, cb |-> Null]
\* A slot holding no constructed pointer object.
Dead == [live |-> FALSE, ptr |-> Null, cb |-> Null]
Live(p) == [live |-> TRUE, ptr |-> p.ptr, cb |-> p.cb]

\* control_block::control_block() : shared_cnt(0), weak_cnt(0), for a block
\* of variant k managing the raw pointer p.
control_block(k, p) ==
    [st |-> "live", kind |-> k, shared_cnt |-> 0, weak_cnt |-> 0, ptr |-> p,
     del_calls |-> 0, free_calls |-> 0, dcalls |-> <<>>]
NoBlock ==
    [st |-> "unalloc", kind |-> "none", shared_cnt |-> 0, weak_cnt |-> 0,
     ptr |-> Null, del_calls |-> 0, free_calls |-> 0, dcalls |-> <<>>]
\* A managed object: its state and its weak_ptr member (wptr, wcb).
NoObj == [st |-> "none", wptr |-> Null, wcb |-> Null]
NewObj == [st |-> "alive", wptr |-> Null, wcb |-> Null]

\* The heap part of the state, threaded through the operators below.
Heap == [cbs |-> cbs, objs |-> objs, faults |-> faults]

Fault(M, f) == [M EXCEPT !.faults = @ \cup {f}]
\* Every access to a control block through a link: a freed block is a
\* use-after-free.
Access(M, c) == IF M.cbs[c].st = "live" THEN M ELSE Fault(M, "use_after_free")

get_shared_cnt(M, c) == M.cbs[c].shared_cnt
get_weak_cnt(M, c) == M.cbs[c].weak_cnt

inc_shared(M, c) == [Access(M, c) EXCEPT !.cbs[c].shared_cnt = @ + 1]
inc_weak(M, c) == [Access(M, c) EXCEPT !.cbs[c].weak_cnt = @ + 1]

\* assert(shared_cnt > 0); --shared_cnt;
release_shared(M, c) ==
    IF get_shared_cnt(M, c) = 0
    THEN Fault(Access(M, c), "assert_release_shared")
    ELSE [Access(M, c) EXCEPT !.cbs[c].shared_cnt = @ - 1]

\* assert(weak_cnt > 0); --weak_cnt;
release_weak(M, c) ==
    IF get_weak_cnt(M, c) = 0
    THEN Fault(Access(M, c), "assert_release_weak")
    ELSE [Access(M, c) EXCEPT !.cbs[c].weak_cnt = @ - 1]

\* delete cb;
delete_cb(M, c) ==
    LET M1 == IF M.cbs[c].st = "live" THEN M ELSE Fault(M, "double_free")
    IN [M1 EXCEPT !.cbs[c].st = "freed", !.cbs[c].free_calls = @ + 1]

\* ~weak_ptr() that also invokes the deleter when it drops the last reference.
weak_dtor_runs_hook(M, w) ==
    IF w.cb = Null THEN M
    ELSE LET c == w.cb
             M1 == release_weak(M, c)
         IN IF get_shared_cnt(M1, c) = 0 /\ get_weak_cnt(M1, c) = 0
            THEN delete_cb([M1 EXCEPT !.cbs[c].del_calls = @ + 1,
                                      !.cbs[c].dcalls = Append(@, M1.cbs[c].ptr)], c)
            ELSE M1

\* weak_ptr::~weak_ptr() for an observer with the fields w.
weak_dtor(M, w) ==
    IF w.cb = Null THEN M
    ELSE LET c == w.cb
             M1 == release_weak(M, c)
         IN IF get_shared_cnt(M1, c) = 0 /\ get_weak_cnt(M1, c) = 0
            THEN delete_cb(M1, c)
            ELSE M1

\* The managed object's destructor: the object ends, then its weak_ptr
\* member is destroyed.
destroy_object(M, o) ==
    LET M1 == IF M.objs[o].st = "alive" THEN M ELSE Fault(M, "double_destroy")
        w == [ptr |-> M.objs[o].wptr, cb |-> M.objs[o].wcb]
        M2 == [M1 EXCEPT !.objs[o] = [st |-> "destroyed", wptr |-> Null, wcb |-> Null]]
    IN weak_dtor(M2, w)

\* delete_object that leaves the deleter alone when the pointer is null.
delete_object_skip_null(M, c) ==
    LET M0 == IF get_shared_cnt(M, c) = 0 THEN Access(M, c)
              ELSE Fault(Access(M, c), "assert_delete_object")
        p == M.cbs[c].ptr
        M1 == [M0 EXCEPT !.cbs[c].del_calls = @ + 1,
                         !.cbs[c].dcalls =
                             IF M.cbs[c].kind = "separate" THEN Append(@, p) ELSE @]
    IN IF p = Null THEN M0 ELSE destroy_object(M1, p)

\* cb_separate::delete_object: assert(get_shared_cnt() == 0); deleter(ptr);
\* the deleter ends the object it is given (nothing for nullptr).
\* cb_inplace::delete_object: assert(get_shared_cnt() == 0); ~Y() in place.
delete_object(M, c) ==
    LET M0 == IF get_shared_cnt(M, c) = 0 THEN Access(M, c)
              ELSE Fault(Access(M, c), "assert_delete_object")
        p == M.cbs[c].ptr
        M1 == [M0 EXCEPT !.cbs[c].del_calls = @ + 1,
                         !.cbs[c].dcalls =
                             IF M.cbs[c].kind = "separate" THEN Append(@, p) ELSE @]
    IN IF p = Null THEN M1 ELSE destroy_object(M1, p)


\* ~shared_ptr() with the test of line 120 left out: delete_object on every
\* release.
shared_dtor_every_release(M, s, ub) ==
    IF s.cb = Null THEN M
    ELSE LET c == s.cb
             M2 == delete_object(release_shared(M, c), c)
         IN IF M2.cbs[c].st = "live" /\ get_shared_cnt(M2, c) = 0 /\ get_weak_cnt(M2, c) = 0
            THEN delete_cb(M2, c)
            ELSE M2

\* ~shared_ptr() that frees the block with the last owner, whatever
\* weak_cnt is.
shared_dtor_ignores_weak(M, s, ub) ==
    IF s.cb = Null THEN M
    ELSE LET c == s.cb
             M1 == release_shared(M, c)
             M2 == IF get_shared_cnt(M1, c) = 0 THEN delete_object(M1, c) ELSE M1
         IN IF M2.cbs[c].st # "live"
            THEN LET M3 == Fault(M2, "use_after_free")
                 IN IF ub THEN delete_cb(M3, c) ELSE M3
            ELSE IF get_shared_cnt(M2, c) = 0
                 THEN delete_cb(M2, c)
                 ELSE M2

\* shared_ptr::~shared_ptr() for an owner with the fields s.  When the
\* object's destructor, run inside delete_object, released the last observer
\* and so freed the block, the reads of line 123 are reads of freed memory:
\* ub is what the condition then evaluates to.
shared_dtor(M, s, ub) ==
    IF s.cb = Null THEN M
    ELSE LET c == s.cb
             M1 == release_shared(M, c)
             M2 == IF get_shared_cnt(M1, c) = 0 THEN delete_object(M1, c) ELSE M1
         IN IF M2.cbs[c].st # "live"
            THEN LET M3 == Fault(M2, "use_after_free")
                 IN IF ub THEN delete_cb(M3, c) ELSE M3
            ELSE IF get_shared_cnt(M2, c) = 0 /\ get_weak_cnt(M2, c) = 0
                 THEN delete_cb(M2, c)
                 ELSE M2

\* use_count(): cb == nullptr ? 0 : cb->get_shared_cnt()
use_count(s) == IF s.cb = Null THEN 0 ELSE cbs[s.cb].shared_cnt
\* explicit operator bool(): get() != nullptr
to_bool(s) == s.ptr # Null

\* The result of a constructing operation: the heap after it, the pointer it
\* returns, the exception it propagates ("none" when it returns) and the
\* deleter calls made outside any control block.
Result(M, r, e, d) == [heap |-> M, ret |-> r, exc |-> e, dcalls |-> d]

\* The adopting constructor without its inc_shared.
adopt_no_inc(M, c, p, fail) ==
    IF fail
    THEN Result(IF p = Null THEN M ELSE destroy_object(M, p),
                NullPtr, "bad_alloc", <<p>>)
    ELSE Result([M EXCEPT !.cbs[c] = control_block("separate", p)],
                [ptr |-> p, cb |-> c], "none", <<>>)

\* The adopting constructor without the handler that calls d(ptr).
adopt_no_cleanup(M, c, p, fail) ==
    IF fail
    THEN Result(M, NullPtr, "bad_alloc", <<>>)
    ELSE LET M1 == [M EXCEPT !.cbs[c] = control_block("separate", p)]
         IN Result(inc_shared(M1, c), [ptr |-> p, cb |-> c], "none", <<>>)

\* shared_ptr(Y* ptr, Deleter d): a cb_separate is allocated at c unless the
\* allocation fails; on failure the handler calls d(ptr) and rethrows.
adopt(M, c, p, fail) ==
    IF fail
    THEN Result(IF p = Null THEN M ELSE destroy_object(M, p),
                NullPtr, "bad_alloc", <<p>>)
    ELSE LET M1 == [M EXCEPT !.cbs[c] = control_block("separate", p)]
         IN Result(inc_shared(M1, c), [ptr |-> p, cb |-> c], "none", <<>>)

\* make_shared over storage that is not released when Y's constructor throws.
make_shared_leak(M, c, o, outcome) ==
    CASE outcome = "bad_alloc" -> Result(M, NullPtr, "bad_alloc", <<>>)
      [] outcome = "ctor" ->
            Result([M EXCEPT !.cbs[c] = control_block("inplace", Null)],
                   NullPtr, "ctor", <<>>)
      [] OTHER ->
            LET M1 == [M EXCEPT !.cbs[c] = control_block("inplace", o),
                                !.objs[o] = NewObj]
            IN Result(inc_shared(M1, c), [ptr |-> o, cb |-> c], "none", <<>>)

\* make_shared<Y>(args...): new cb_inplace<Y>(args...) at c with the object
\* o embedded, inc_shared, and the owner (p->get(), p).  outcome is "ok",
\* "bad_alloc" (operator new throws) or "ctor" (Y's constructor throws: the
\* new-expression releases the allocation before the exception leaves it,
\* so no block and no object remain).
make_shared(M, c, o, outcome) ==
    CASE outcome = "bad_alloc" -> Result(M, NullPtr, "bad_alloc", <<>>)
      [] outcome = "ctor" ->
            Result(M, NullPtr, "ctor", <<>>)
      [] OTHER ->
            LET M1 == [M EXCEPT !.cbs[c] = control_block("inplace", o),
                                !.objs[o] = NewObj]
            IN Result(inc_shared(M1, c), [ptr |-> o, cb |-> c], "none", <<>>)

\* The aliasing constructor that stores the raw pointer and shares nothing.
alias_ctor_unlinked(M, r, p) == Result(M, [ptr |-> p, cb |-> Null], "none", <<>>)

\* The aliasing constructor without its inc_shared.
alias_ctor_no_inc(M, r, p) == Result(M, [ptr |-> p, cb |-> r.cb], "none", <<>>)

\* shared_ptr(const shared_ptr<Y>& r, T* ptr): the aliasing constructor; the
\* copy constructors delegate to it with ptr = r.ptr.
alias_ctor(M, r, p) ==
    Result(IF r.cb # Null THEN inc_shared(M, r.cb) ELSE M,
           [ptr |-> p, cb |-> r.cb], "none", <<>>)
copy_ctor(M, r) == alias_ctor(M, r, r.ptr)

\* The observer constructor counting itself as an owner.
weak_ctor_inc_shared(M, r) ==
    Result(IF r.cb # Null THEN inc_shared(M, r.cb) ELSE M,
           [ptr |-> r.ptr, cb |-> r.cb], "none", <<>>)

\* weak_ptr(const weak_ptr&), weak_ptr(const shared_ptr<Y>&): same fields,
\* inc_weak when the link is not null.
weak_ctor(M, r) ==
    Result(IF r.cb # Null THEN inc_weak(M, r.cb) ELSE M,
           [ptr |-> r.ptr, cb |-> r.cb], "none", <<>>)

\* lock() without the test of shared_cnt.
lock_no_check(M, w) ==
    IF w.cb = Null
    THEN Result(M, NullPtr, "none", <<>>)
    ELSE Result(inc_shared(M, w.cb), [ptr |-> w.ptr, cb |-> w.cb], "none", <<>>)

\* weak_ptr::lock()
lock(M, w) ==
    IF w.cb = Null \/ get_shared_cnt(Access(M, w.cb), w.cb) = 0
    THEN Result(IF w.cb = Null THEN M ELSE Access(M, w.cb), NullPtr, "none", <<>>)
    ELSE Result(inc_shared(M, w.cb), [ptr |-> w.ptr, cb |-> w.cb], "none", <<>>)

FreeCBs == {c \in CBs : cbs[c].st = "unalloc"}
FreeObjs == {o \in Objs : objs[o].st = "none"}
\* The next block and the next object the allocator hands out.
FreshCB == CHOOSE c \in FreeCBs : \A d \in FreeCBs : c <= d
FreshObj == CHOOSE o \in FreeObjs : \A d \in FreeObjs : o <= d
CanAlloc == FreeCBs # {} /\ FreeObjs # {}
\* Whether one more pointer object may be constructed.
CanConstruct ==
    Cardinality({i \in SPs : sp[i].live}) + Cardinality({j \in WPs : wp[j].live}) < MaxLive
\* What the reads of freed memory in ~shared_ptr can evaluate to; they can
\* happen only when the owner with the fields s is the last one.
UBChoices(s) ==
    IF s.cb # Null /\ cbs[s.cb].shared_cnt = 1 THEN BOOLEAN ELSE {FALSE}

\* The operation just performed: its name ("self_assign" and "w_self_assign"
\* for an assignment, by copy or by move, of a pointer to itself), the
\* exception it propagated and the deleter calls it made outside any control
\* block.
Op(name, e, d) == [op |-> name, exc |-> e, dcalls |-> d]

\* The two threads of SpecRace.
Threads == {1, 2}
\* A thread between operations, holding n owning pointers and w observers,
\* all linked to the shared block.  op is the operation in progress, pc the
\* place in it, reg the count loaded by the increment or decrement in
\* progress, chk the count lock() tested, ops the operations started so far
\* and got what the thread's last lock() returned.
Thread(n, w) ==
    [pc |-> "idle", op |-> "none", reg |-> 0, chk |-> 0,
     owners |-> n, observers |-> w, ops |-> 0, got |-> "none"]

Commit(M) ==
    /\ cbs' = M.cbs
    /\ objs' = M.objs
    /\ faults' = M.faults

Init ==
    /\ sp = [i \in SPs |-> Dead]
    /\ wp = [j \in WPs |-> Dead]
    /\ cbs = [c \in CBs |-> NoBlock]
    /\ objs = [o \in Objs |-> NoObj]
    /\ faults = {}
    /\ last = Op("init", "none", <<>>)
    /\ thr = [t \in Threads |-> Thread(0, 0)]
    /\ races = {}

\* shared_ptr<T> p;  shared_ptr<T> p(nullptr);
DefaultCtor(i) ==
    /\ ~sp[i].live /\ CanConstruct
    /\ sp' = [sp EXCEPT ![i] = Live(NullPtr)]
    /\ last' = Op("default", "none", <<>>)
    /\ UNCHANGED rvars
    /\ UNCHANGED <<wp, cbs, objs, faults>>

\* shared_ptr<T> p = make_shared<T>(args...);
MakeShared(i, outcome) ==
    /\ ~sp[i].live /\ CanConstruct
    /\ CanAlloc
    /\ LET R == make_shared(Heap, FreshCB, FreshObj, outcome)
       IN /\ Commit(R.heap)
          /\ sp' = IF R.exc = "none" THEN [sp EXCEPT ![i] = Live(R.ret)] ELSE sp
          /\ last' = Op("make_shared", R.exc, R.dcalls)
          /\ UNCHANGED rvars
    /\ UNCHANGED wp

\* shared_ptr<T> p(raw, d);  shared_ptr<T> p(raw);  raw is nullptr or a
\* freshly allocated object.
Adopt(i, isnull, fail) ==
    /\ ~sp[i].live /\ CanConstruct
    /\ CanAlloc
    /\ LET p == IF isnull THEN Null ELSE FreshObj
           M0 == IF isnull THEN Heap ELSE [Heap EXCEPT !.objs[p] = NewObj]
           R == adopt(M0, FreshCB, p, fail)
       IN /\ Commit(R.heap)
          /\ sp' = IF R.exc = "none" THEN [sp EXCEPT ![i] = Live(R.ret)] ELSE sp
          /\ last' = Op("adopt", R.exc, R.dcalls)
          /\ UNCHANGED rvars
    /\ UNCHANGED wp


\* The raw pointers a caller hands to the aliasing constructor: nullptr, or
\* the address of a sub-object.
AliasPtrs == {Null, SubObj}

\* shared_ptr<T> p(r, raw);
AliasCtor(i, r, p) ==
    /\ ~sp[i].live /\ CanConstruct /\ sp[r].live
    /\ p \in AliasPtrs
    /\ LET R == alias_ctor(Heap, sp[r], p)
       IN /\ Commit(R.heap)
          /\ sp' = [sp EXCEPT ![i] = Live(R.ret)]
    /\ last' = Op("alias", "none", <<>>)
    /\ UNCHANGED rvars
    /\ UNCHANGED wp

\* shared_ptr<T> p(r);
CopyCtor(i, r) ==
    /\ ~sp[i].live /\ CanConstruct /\ sp[r].live
    /\ LET R == copy_ctor(Heap, sp[r])
       IN /\ Commit(R.heap)
          /\ sp' = [sp EXCEPT ![i] = Live(R.ret)]
    /\ last' = Op("copy", "none", <<>>)
    /\ UNCHANGED rvars
    /\ UNCHANGED wp

\* The move constructor that clears only the link of its source.
move_ctor_keep_ptr(S, i, r) ==
    [S EXCEPT ![i] = Live(S[r]), ![r] = Live([ptr |-> S[r].ptr, cb |-> Null])]

\* shared_ptr(shared_ptr&& r): the fields of r, and r cleared.
move_ctor(S, i, r) == [S EXCEPT ![i] = Live(S[r]), ![r] = Live(NullPtr)]

\* shared_ptr<T> p(std::move(r));
MoveCtor(i, r) ==
    /\ ~sp[i].live /\ CanConstruct /\ sp[r].live
    /\ sp' = move_ctor(sp, i, r)
    /\ last' = Op("move", "none", <<>>)
    /\ UNCHANGED rvars
    /\ UNCHANGED <<wp, cbs, objs, faults>>

\* The end of the lifetime of the owner in slot i.
Dtor(i, ub) ==
    /\ sp[i].live
    /\ Commit(shared_dtor(Heap, sp[i], ub))
    /\ sp' = [sp EXCEPT ![i] = Dead]
    /\ last' = Op("dtor", "none", <<>>)
    /\ UNCHANGED rvars
    /\ UNCHANGED wp

\* Copy assignment that releases *this first and then copies r, with no test
\* for self-assignment.
copy_assign_release_first(M, S, i, r, ub) ==
    LET R == copy_ctor(shared_dtor(M, S[i], ub), S[r])
    IN [heap |-> R.heap, sp |-> [S EXCEPT ![i] = Live(R.ret)]]

\* operator=(const shared_ptr& r): if (this != &r) shared_ptr(r).swap(*this);
\* the temporary, holding the old fields of *this, is then destroyed.
copy_assign(M, S, i, r, ub) ==
    IF i = r THEN [heap |-> M, sp |-> S]
    ELSE LET R == copy_ctor(M, S[r])
         IN [heap |-> shared_dtor(R.heap, S[i], ub),
             sp |-> [S EXCEPT ![i] = Live(R.ret)]]

\* Move assignment that overwrites *this without releasing what it held.
move_assign_no_release(M, S, i, r, ub) ==
    IF i = r THEN [heap |-> M, sp |-> S]
    ELSE [heap |-> M, sp |-> [S EXCEPT ![i] = Live(S[r]), ![r] = Live(NullPtr)]]

\* operator=(shared_ptr&& r): if (this != &r) shared_ptr(std::move(r)).swap(*this);
move_assign(M, S, i, r, ub) ==
    IF i = r THEN [heap |-> M, sp |-> S]
    ELSE [heap |-> shared_dtor(M, S[i], ub),
          sp |-> [S EXCEPT ![i] = Live(S[r]), ![r] = Live(NullPtr)]]

\* p = r;
CopyAssign(i, r, ub) ==
    /\ sp[i].live /\ sp[r].live
    /\ LET R == copy_assign(Heap, sp, i, r, ub)
       IN Commit(R.heap) /\ sp' = R.sp
    /\ last' = Op(IF i = r THEN "self_assign" ELSE "copy_assign", "none", <<>>)
    /\ UNCHANGED rvars
    /\ UNCHANGED wp

\* p = std::move(r);
MoveAssign(i, r, ub) ==
    /\ sp[i].live /\ sp[r].live
    /\ LET R == move_assign(Heap, sp, i, r, ub)
       IN Commit(R.heap) /\ sp' = R.sp
    /\ last' = Op(IF i = r THEN "self_assign" ELSE "move_assign", "none", <<>>)
    /\ UNCHANGED rvars
    /\ UNCHANGED wp

\* reset(): shared_ptr().swap(*this); the temporary is then destroyed.
reset(M, S, i, ub) ==
    [heap |-> shared_dtor(M, S[i], ub), sp |-> [S EXCEPT ![i] = Live(NullPtr)]]

\* p.reset();
Reset(i, ub) ==
    /\ sp[i].live
    /\ LET R == reset(Heap, sp, i, ub)
       IN Commit(R.heap) /\ sp' = R.sp
    /\ last' = Op("reset", "none", <<>>)
    /\ UNCHANGED rvars
    /\ UNCHANGED wp

\* reset(ptr) that releases *this first and only then builds the new owner.
reset_ptr_release_first(M, S, i, c, p, fail, ub) ==
    LET R == adopt(shared_dtor(M, S[i], ub), c, p, fail)
    IN IF R.exc # "none"
       THEN [heap |-> R.heap, sp |-> [S EXCEPT ![i] = Live(NullPtr)],
             exc |-> R.exc, dcalls |-> R.dcalls]
       ELSE [heap |-> R.heap, sp |-> [S EXCEPT ![i] = Live(R.ret)],
             exc |-> "none", dcalls |-> <<>>]

\* reset(Y* ptr), reset(Y* ptr, Deleter d): shared_ptr<T>(ptr, d).swap(*this);
\* when the temporary's constructor throws, *this is not touched.
reset_ptr(M, S, i, c, p, fail, ub) ==
    LET R == adopt(M, c, p, fail)
    IN IF R.exc # "none"
       THEN [heap |-> R.heap, sp |-> S, exc |-> R.exc, dcalls |-> R.dcalls]
       ELSE [heap |-> shared_dtor(R.heap, S[i], ub),
             sp |-> [S EXCEPT ![i] = Live(R.ret)],
             exc |-> "none", dcalls |-> <<>>]

\* p.reset(raw);  p.reset(raw, d);
ResetPtr(i, isnull, fail, ub) ==
    /\ sp[i].live
    /\ CanAlloc
    /\ LET p == IF isnull THEN Null ELSE FreshObj
           M0 == IF isnull THEN Heap ELSE [Heap EXCEPT !.objs[p] = NewObj]
           R == reset_ptr(M0, sp, i, FreshCB, p, fail, ub)
       IN /\ Commit(R.heap)
          /\ sp' = R.sp
          /\ last' = Op("reset_ptr", R.exc, R.dcalls)
          /\ UNCHANGED rvars
    /\ UNCHANGED wp


\* weak_ptr<T> w;
WDefaultCtor(j) ==
    /\ ~wp[j].live /\ CanConstruct
    /\ wp' = [wp EXCEPT ![j] = Live(NullPtr)]
    /\ last' = Op("w_default", "none", <<>>)
    /\ UNCHANGED rvars
    /\ UNCHANGED <<sp, cbs, objs, faults>>

\* weak_ptr<T> w(r); for an owning pointer r.
WFromShared(j, r) ==
    /\ ~wp[j].live /\ CanConstruct /\ sp[r].live
    /\ LET R == weak_ctor(Heap, sp[r])
       IN /\ Commit(R.heap)
          /\ wp' = [wp EXCEPT ![j] = Live(R.ret)]
    /\ last' = Op("w_from_shared", "none", <<>>)
    /\ UNCHANGED rvars
    /\ UNCHANGED sp

\* weak_ptr<T> w(r); for an observer r.
WCopyCtor(j, r) ==
    /\ ~wp[j].live /\ CanConstruct /\ wp[r].live
    /\ LET R == weak_ctor(Heap, wp[r])
       IN /\ Commit(R.heap)
          /\ wp' = [wp EXCEPT ![j] = Live(R.ret)]
    /\ last' = Op("w_copy", "none", <<>>)
    /\ UNCHANGED rvars
    /\ UNCHANGED sp

\* The move constructor of an observer that leaves its source linked.
weak_move_ctor_keep_source(W, j, r) == [W EXCEPT ![j] = Live(W[r])]

\* weak_ptr(weak_ptr&& r): the fields of r, and r cleared.
weak_move_ctor(W, j, r) == [W EXCEPT ![j] = Live(W[r]), ![r] = Live(NullPtr)]

\* weak_ptr<T> w(std::move(r));
WMoveCtor(j, r) ==
    /\ ~wp[j].live /\ CanConstruct /\ wp[r].live
    /\ wp' = weak_move_ctor(wp, j, r)
    /\ last' = Op("w_move", "none", <<>>)
    /\ UNCHANGED rvars
    /\ UNCHANGED <<sp, cbs, objs, faults>>

\* The end of the lifetime of the observer in slot j.
WDtor(j) ==
    /\ wp[j].live
    /\ Commit(weak_dtor(Heap, wp[j]))
    /\ wp' = [wp EXCEPT ![j] = Dead]
    /\ last' = Op("w_dtor", "none", <<>>)
    /\ UNCHANGED rvars
    /\ UNCHANGED sp

\* weak_ptr::operator=(const weak_ptr& r):
\* if (this != &r) weak_ptr(r).swap(*this);
weak_copy_assign(M, W, j, r) ==
    IF j = r THEN [heap |-> M, wp |-> W]
    ELSE LET R == weak_ctor(M, W[r])
         IN [heap |-> weak_dtor(R.heap, W[j]),
             wp |-> [W EXCEPT ![j] = Live(R.ret)]]

\* Move assignment of an observer that leaves its source linked.
weak_move_assign_keep_source(M, W, j, r) ==
    IF j = r THEN [heap |-> M, wp |-> W]
    ELSE [heap |-> weak_dtor(M, W[j]), wp |-> [W EXCEPT ![j] = Live(W[r])]]

\* weak_ptr::operator=(weak_ptr&& r):
\* if (this != &r) weak_ptr(std::move(r)).swap(*this);
weak_move_assign(M, W, j, r) ==
    IF j = r THEN [heap |-> M, wp |-> W]
    ELSE [heap |-> weak_dtor(M, W[j]),
          wp |-> [W EXCEPT ![j] = Live(W[r]), ![r] = Live(NullPtr)]]

\* weak_ptr::operator=(const shared_ptr<Y>& r): weak_ptr<Y>(r).swap(*this);
\* for the observer with the fields w.
weak_assign_shared(M, w, r) ==
    LET R == weak_ctor(M, r)
    IN [heap |-> weak_dtor(R.heap, w), ret |-> R.ret]

\* w = r; for an observer r.
WCopyAssign(j, r) ==
    /\ wp[j].live /\ wp[r].live
    /\ LET R == weak_copy_assign(Heap, wp, j, r)
       IN Commit(R.heap) /\ wp' = R.wp
    /\ last' = Op(IF j = r THEN "w_self_assign" ELSE "w_copy_assign", "none", <<>>)
    /\ UNCHANGED rvars
    /\ UNCHANGED sp

\* w = std::move(r);
WMoveAssign(j, r) ==
    /\ wp[j].live /\ wp[r].live
    /\ LET R == weak_move_assign(Heap, wp, j, r)
       IN Commit(R.heap) /\ wp' = R.wp
    /\ last' = Op(IF j = r THEN "w_self_assign" ELSE "w_move_assign", "none", <<>>)
    /\ UNCHANGED rvars
    /\ UNCHANGED sp

\* w = r; for an owning pointer r.
WAssignShared(j, r) ==
    /\ wp[j].live /\ sp[r].live
    /\ LET R == weak_assign_shared(Heap, wp[j], sp[r])
       IN Commit(R.heap) /\ wp' = [wp EXCEPT ![j] = Live(R.ret)]
    /\ last' = Op("w_assign_shared", "none", <<>>)
    /\ UNCHANGED rvars
    /\ UNCHANGED sp

\* weak_ptr::reset(): weak_ptr().swap(*this);
weak_reset(M, W, j) ==
    [heap |-> weak_dtor(M, W[j]), wp |-> [W EXCEPT ![j] = Live(NullPtr)]]

\* w.reset();
WReset(j) ==
    /\ wp[j].live
    /\ LET R == weak_reset(Heap, wp, j)
       IN Commit(R.heap) /\ wp' = R.wp
    /\ last' = Op("w_reset", "none", <<>>)
    /\ UNCHANGED rvars
    /\ UNCHANGED sp

\* shared_ptr<T> p = w.lock();
Lock(j, i) ==
    /\ wp[j].live /\ ~sp[i].live /\ CanConstruct
    /\ LET R == lock(Heap, wp[j])
       IN /\ Commit(R.heap)
          /\ sp' = [sp EXCEPT ![i] = Live(R.ret)]
    /\ last' = Op("lock", "none", <<>>)
    /\ UNCHANGED rvars
    /\ UNCHANGED wp

\* p->self = p; the weak_ptr member of the object p points to is assigned
\* from p itself, so that the object observes its own control block.
SetMember(i) ==
    /\ sp[i].live
    /\ sp[i].ptr \in Objs /\ objs[sp[i].ptr].st = "alive"
    /\ LET o == sp[i].ptr
           R == weak_assign_shared(Heap, [ptr |-> objs[o].wptr, cb |-> objs[o].wcb], sp[i])
       IN Commit([R.heap EXCEPT !.objs[o].wptr = R.ret.ptr, !.objs[o].wcb = R.ret.cb])
    /\ last' = Op("set_member", "none", <<>>)
    /\ UNCHANGED rvars
    /\ UNCHANGED <<sp, wp>>

Next ==
    \/ \E i \in SPs : DefaultCtor(i)
    \/ \E i \in SPs, outcome \in {"ok", "bad_alloc", "ctor"} : MakeShared(i, outcome)
    \/ \E i \in SPs, isnull \in BOOLEAN, fail \in BOOLEAN : Adopt(i, isnull, fail)
    \/ \E i \in SPs, r \in SPs, p \in AliasPtrs : AliasCtor(i, r, p)
    \/ \E i \in SPs, r \in SPs : CopyCtor(i, r)
    \/ \E i \in SPs, r \in SPs : MoveCtor(i, r)
    \/ \E i \in SPs : \E ub \in UBChoices(sp[i]) : Dtor(i, ub)
    \/ \E i \in SPs, r \in SPs : \E ub \in UBChoices(sp[i]) : CopyAssign(i, r, ub)
    \/ \E i \in SPs, r \in SPs : \E ub \in UBChoices(sp[i]) : MoveAssign(i, r, ub)
    \/ \E i \in SPs : \E ub \in UBChoices(sp[i]) : Reset(i, ub)
    \/ \E i \in SPs, isnull \in BOOLEAN, fail \in BOOLEAN :
           \E ub \in UBChoices(sp[i]) : ResetPtr(i, isnull, fail, ub)
    \/ \E j \in WPs : WDefaultCtor(j)
    \/ \E j \in WPs, r \in SPs : WFromShared(j, r)
    \/ \E j \in WPs, r \in WPs : WCopyCtor(j, r)
    \/ \E j \in WPs, r \in WPs : WMoveCtor(j, r)
    \/ \E j \in WPs : WDtor(j)
    \/ \E j \in WPs, r \in WPs : WCopyAssign(j, r)
    \/ \E j \in WPs, r \in WPs : WMoveAssign(j, r)
    \/ \E j \in WPs, r \in SPs : WAssignShared(j, r)
    \/ \E j \in WPs : WReset(j)
    \/ \E j \in WPs, i \in SPs : Lock(j, i)
    \/ \E i \in SPs : SetMember(i)

Spec == Init /\ [][Next]_vars


(***************************************************************************)
(* Two unsynchronized threads.  The counts are plain size_t fields, so     *)
(* ++shared_cnt and --shared_cnt are a load followed by a store, and       *)
(* lock() is a test followed by an increment; a step of a thread is one    *)
(* access to the shared control block.  Each thread has owning pointers    *)
(* and observers of its own, all linked to one control block made by       *)
(* make_shared; only the control block is shared.                          *)
(***************************************************************************)

\* The control block and the object the threads share.
SharedCB == CHOOSE c \in CBs : \A d \in CBs : c <= d
SharedObj == CHOOSE o \in Objs : \A d \in Objs : o <= d

\* auto p = make_shared<T>(); auto q = p; weak_ptr<T> w = q; then p is
\* handed to thread 1, q and w to thread 2.
RaceInit ==
    /\ sp = [i \in SPs |-> Dead]
    /\ wp = [j \in WPs |-> Dead]
    /\ cbs = [c \in CBs |->
                IF c = SharedCB
                THEN [control_block("inplace", SharedObj) EXCEPT !.shared_cnt = 2,
                                                                 !.weak_cnt = 1]
                ELSE NoBlock]
    /\ objs = [o \in Objs |-> IF o = SharedObj THEN NewObj ELSE NoObj]
    /\ faults = {}
    /\ last = Op("init", "none", <<>>)
    /\ thr = [t \in Threads |-> IF t = 1 THEN Thread(1, 0) ELSE Thread(1, 1)]
    /\ races = {}

\* No assertion has failed: a failed assert aborts the process.
Running ==
    faults \cap {"assert_release_shared", "assert_release_weak", "assert_delete_object"} = {}

CanStart(t) == Running /\ thr[t].pc = "idle" /\ thr[t].ops < MaxThreadOps

\* Thread t starts shared_ptr<T> c(p) for an owner p of its own: the
\* aliasing constructor calls cb->inc_shared().
T_CopyBegin(t) ==
    /\ CanStart(t) /\ thr[t].owners > 0
    /\ thr' = [thr EXCEPT ![t].pc = "inc_load", ![t].op = "copy", ![t].ops = @ + 1]
    /\ UNCHANGED <<sp, wp, cbs, objs, faults, last, races>>

\* Thread t starts the destructor of one of its owners: cb->release_shared().
T_DtorBegin(t) ==
    /\ CanStart(t) /\ thr[t].owners > 0
    /\ thr' = [thr EXCEPT ![t].pc = "rel_load", ![t].op = "dtor", ![t].ops = @ + 1]
    /\ UNCHANGED <<sp, wp, cbs, objs, faults, last, races>>

\* Thread t starts w.lock() on an observer of its own.
T_LockBegin(t) ==
    /\ CanStart(t) /\ thr[t].observers > 0
    /\ thr' = [thr EXCEPT ![t].pc = "lock_check", ![t].op = "lock", ![t].ops = @ + 1,
                          ![t].got = "none"]
    /\ UNCHANGED <<sp, wp, cbs, objs, faults, last, races>>

\* lock() that goes on to the increment whatever the count it reads.
T_LockCheck_no_test(t) ==
    /\ Running /\ thr[t].pc = "lock_check"
    /\ thr' = [thr EXCEPT ![t].pc = "inc_load", ![t].chk = get_shared_cnt(Heap, SharedCB)]
    /\ UNCHANGED <<sp, wp, cbs, objs, faults, last, races>>

\* lock(): if (cb == nullptr || cb->get_shared_cnt() == 0) return shared_ptr();
T_LockCheck(t) ==
    /\ Running /\ thr[t].pc = "lock_check"
    /\ LET v == get_shared_cnt(Heap, SharedCB)
       IN thr' = IF v = 0
                 THEN [thr EXCEPT ![t].pc = "idle", ![t].op = "none", ![t].got = "empty"]
                 ELSE [thr EXCEPT ![t].pc = "inc_load", ![t].chk = v]
    /\ UNCHANGED <<sp, wp, cbs, objs, faults, last, races>>

\* ++shared_cnt, the load.  In lock() the value loaded may differ from the
\* one the test saw.
T_IncLoad(t) ==
    /\ Running /\ thr[t].pc = "inc_load"
    /\ LET v == get_shared_cnt(Heap, SharedCB)
       IN /\ thr' = [thr EXCEPT ![t].pc = "inc_store", ![t].reg = v]
          /\ races' = IF thr[t].op = "lock" /\ v # thr[t].chk
                      THEN races \cup {"stale_check"} ELSE races
    /\ UNCHANGED <<sp, wp, cbs, objs, faults, last>>

\* ++shared_cnt, the store; the new owner then exists.  A store over a count
\* that is no longer the one loaded undoes another thread's update.
T_IncStore(t) ==
    /\ Running /\ thr[t].pc = "inc_store"
    /\ cbs' = [cbs EXCEPT ![SharedCB].shared_cnt = thr[t].reg + 1]
    /\ races' = IF get_shared_cnt(Heap, SharedCB) # thr[t].reg
                THEN races \cup {"lost_update"} ELSE races
    /\ thr' = [thr EXCEPT ![t].pc = "idle", ![t].op = "none", ![t].reg = 0, ![t].chk = 0,
                          ![t].owners = @ + 1,
                          ![t].got = IF thr[t].op # "lock" THEN @
                                     ELSE IF objs[SharedObj].st = "alive"
                                          THEN "object" ELSE "destroyed"]
    /\ UNCHANGED <<sp, wp, objs, faults, last>>

\* release_shared(): assert(shared_cnt > 0); and the load of --shared_cnt.
T_RelLoad(t) ==
    /\ Running /\ thr[t].pc = "rel_load"
    /\ LET v == get_shared_cnt(Heap, SharedCB)
       IN IF v = 0
          THEN /\ faults' = faults \cup {"assert_release_shared"}
               /\ thr' = thr
          ELSE /\ thr' = [thr EXCEPT ![t].pc = "rel_store", ![t].reg = v]
               /\ faults' = faults
    /\ UNCHANGED <<sp, wp, cbs, objs, last, races>>

\* --shared_cnt, the store.
T_RelStore(t) ==
    /\ Running /\ thr[t].pc = "rel_store"
    /\ cbs' = [cbs EXCEPT ![SharedCB].shared_cnt = thr[t].reg - 1]
    /\ races' = IF get_shared_cnt(Heap, SharedCB) # thr[t].reg
                THEN races \cup {"lost_update"} ELSE races
    /\ thr' = [thr EXCEPT ![t].pc = "dtor_tail", ![t].reg = 0]
    /\ UNCHANGED <<sp, wp, objs, faults, last>>

\* ~shared_ptr() after release_shared: delete_object when the count reads
\* 0, and delete cb when both counts read 0; the owner is then gone.
T_DtorTail(t) ==
    /\ Running /\ thr[t].pc = "dtor_tail"
    /\ LET M == Heap
           M2 == IF get_shared_cnt(M, SharedCB) = 0 THEN delete_object(M, SharedCB) ELSE M
       IN Commit(IF get_shared_cnt(M2, SharedCB) = 0 /\ get_weak_cnt(M2, SharedCB) = 0
                 THEN delete_cb(M2, SharedCB) ELSE M2)
    /\ thr' = [thr EXCEPT ![t].pc = "idle", ![t].op = "none", ![t].owners = @ - 1]
    /\ UNCHANGED <<sp, wp, last, races>>

RaceNext ==
    \/ \E t \in Threads : T_CopyBegin(t)
    \/ \E t \in Threads : T_DtorBegin(t)
    \/ \E t \in Threads : T_LockBegin(t)
    \/ \E t \in Threads : T_LockCheck(t)
    \/ \E t \in Threads : T_IncLoad(t)
    \/ \E t \in Threads : T_IncStore(t)
    \/ \E t \in Threads : T_RelLoad(t)
    \/ \E t \in Threads : T_RelStore(t)
    \/ \E t \in Threads : T_DtorTail(t)

SpecRace == RaceInit /\ [][RaceNext]_vars


(***************************************************************************)
(* Properties.                                                             *)
(***************************************************************************)

\* The live owning pointers, and the live observers in slots, linked to c.
Owners(c) == {i \in SPs : sp[i].live /\ sp[i].cb = c}
Observers(c) == {j \in WPs : wp[j].live /\ wp[j].cb = c}
Allocated(c) == cbs[c].st # "unalloc"

\* C1: for a control block made by make_shared, delete_object has run once
\* exactly when no shared reference is left and not at all before, and every
\* run of it is in a step that takes shared_cnt from 1 to 0.
C1_DeleteObjectOnce ==
    /\ [](\A c \in CBs : cbs[c].kind = "inplace" =>
            cbs[c].del_calls = IF cbs[c].shared_cnt = 0 THEN 1 ELSE 0)
    /\ [][\A c \in CBs : cbs'[c].kind = "inplace" /\ cbs'[c].del_calls # cbs[c].del_calls =>
            /\ cbs[c].shared_cnt = 1 /\ cbs'[c].shared_cnt = 0
            /\ cbs'[c].del_calls = cbs[c].del_calls + 1
            /\ objs[cbs[c].ptr].st = "alive" /\ objs'[cbs[c].ptr].st = "destroyed"]_vars

\* C1 witness: the last owner made by make_shared has just been destroyed
\* and the hook has run.
C1_Witness ==
    /\ last.op = "dtor"
    /\ \E c \in CBs : cbs[c].kind = "inplace" /\ cbs[c].shared_cnt = 0
                      /\ cbs[c].del_calls = 1 /\ objs[cbs[c].ptr].st = "destroyed"

\* C2: every control block is freed exactly once, namely when shared_cnt and
\* weak_cnt are both zero, and not before delete_object has run.
C2_FreedExactlyOnce ==
    \A c \in CBs : Allocated(c) =>
        /\ cbs[c].free_calls = IF cbs[c].shared_cnt = 0 /\ cbs[c].weak_cnt = 0 THEN 1 ELSE 0
        /\ cbs[c].free_calls > 0 => cbs[c].del_calls = 1


\* C3: use_count() is 0 on a default-constructed owner, 1 right after
\* make_shared or a successful adoption, one more (through every owner of the
\* block) after a copy, so that it equals the number of owners of the block,
\* and one less after the destruction of an owner.
C3_UseCount ==
    /\ [](\A c \in CBs : \A i \in Owners(c) : use_count(sp[i]) = Cardinality(Owners(c)))
    /\ [][/\ last'.op = "default" =>
                \A i \in SPs : DefaultCtor(i) => use_count(sp[i])' = 0
          /\ last'.op = "make_shared" =>
                \A i \in SPs : MakeShared(i, "ok") => use_count(sp[i])' = 1
          /\ last'.op = "adopt" =>
                \A i \in SPs, isnull \in BOOLEAN :
                    Adopt(i, isnull, FALSE) => use_count(sp[i])' = 1
          /\ last'.op = "copy" =>
                \A i \in SPs, r \in SPs : CopyCtor(i, r) /\ sp[r].cb # Null =>
                    \A k \in Owners(sp[r].cb) \cup {i} :
                        use_count(sp[k])' = use_count(sp[r]) + 1
          /\ last'.op = "dtor" =>
                \A i \in SPs, ub \in BOOLEAN : Dtor(i, ub) /\ sp[i].cb # Null =>
                    /\ cbs'[sp[i].cb].shared_cnt = use_count(sp[i]) - 1
                    /\ \A k \in Owners(sp[i].cb) \ {i} :
                           use_count(sp[k])' = use_count(sp[k]) - 1]_vars

\* C3 witness: an owner has just been copied and both owners report 2.
C3_Witness ==
    /\ last.op = "copy"
    /\ \E c \in CBs : Cardinality(Owners(c)) = 2
                      /\ \A i \in Owners(c) : use_count(sp[i]) = 2


\* C4: lock() on an observer with no control block, or whose block has no
\* owning pointer left, returns an empty owner and changes no count; while an
\* owning pointer is alive it returns an owner of the same block and
\* use_count() is one more than before.
C4_Lock ==
    [][last'.op = "lock" =>
          \A j \in WPs, i \in SPs : Lock(j, i) =>
              IF wp[j].cb = Null \/ Owners(wp[j].cb) = {}
              THEN /\ use_count(sp[i])' = 0 /\ ~to_bool(sp'[i])
                   /\ cbs' = cbs /\ objs' = objs
              ELSE /\ sp'[i].live /\ sp'[i].cb = wp[j].cb /\ sp'[i].ptr = wp[j].ptr
                   /\ use_count(sp[i])' = cbs[wp[j].cb].shared_cnt + 1
                   /\ \A k \in Owners(wp[j].cb) : use_count(sp[k])' = use_count(sp[k]) + 1
                   /\ \A c \in CBs : cbs'[c].weak_cnt = cbs[c].weak_cnt]_vars

\* C4 witness: lock() has just been called on an observer of a block whose
\* owners are all gone, and returned an empty owner.
C4_Witness ==
    /\ last.op = "lock"
    /\ \E j \in WPs : wp[j].live
    /\ \A j \in WPs : wp[j].live =>
          /\ wp[j].cb # Null /\ Owners(wp[j].cb) = {}
          /\ cbs[wp[j].cb].st = "live" /\ cbs[wp[j].cb].del_calls = 1
    /\ \E i \in SPs : sp[i].live /\ use_count(sp[i]) = 0 /\ ~to_bool(sp[i])

ObserverOps ==
    {"w_default", "w_from_shared", "w_copy", "w_move", "w_dtor", "w_copy_assign",
     "w_move_assign", "w_self_assign", "w_assign_shared", "w_reset"}

\* C5: the deleter of an adopted pointer has been invoked once, with the
\* adopted raw pointer, exactly when no shared reference is left; every
\* invocation is in a step that takes shared_cnt from 1 to 0; no operation on
\* an observer invokes a deleter.
C5_DeleterOnce ==
    /\ [](\A c \in CBs : cbs[c].kind = "separate" =>
            cbs[c].dcalls = IF cbs[c].shared_cnt = 0 THEN <<cbs[c].ptr>> ELSE <<>>)
    /\ [][/\ \A c \in CBs : cbs'[c].dcalls # cbs[c].dcalls =>
                cbs[c].shared_cnt = 1 /\ cbs'[c].shared_cnt = 0
          /\ last'.op = "adopt" =>
                \A i \in SPs, isnull \in BOOLEAN : Adopt(i, isnull, FALSE) =>
                    /\ cbs'[sp'[i].cb].ptr = (IF isnull THEN Null ELSE FreshObj)
                    /\ cbs'[sp'[i].cb].kind = "separate"
                    /\ cbs'[sp'[i].cb].dcalls = <<>>
          /\ last'.op \in ObserverOps =>
                /\ last'.dcalls = <<>>
                /\ \A c \in CBs : cbs'[c].dcalls = cbs[c].dcalls]_vars

\* C5 witness: the last owner of an adopted object has just been destroyed
\* while an observer is alive, and the deleter has been invoked once.
C5_Witness ==
    /\ last.op = "dtor"
    /\ \E c \in CBs : /\ cbs[c].kind = "separate" /\ cbs[c].ptr # Null
                      /\ cbs[c].dcalls = <<cbs[c].ptr>>
                      /\ Observers(c) # {} /\ cbs[c].st = "live"

\* The counts of every block after the step are those before it, but for
\* weak_cnt of block c, which has changed by d.
WeakDelta(c, d) ==
    \A x \in CBs :
        /\ cbs'[x].shared_cnt = cbs[x].shared_cnt
        /\ cbs'[x].weak_cnt = cbs[x].weak_cnt + (IF x = c THEN d ELSE 0)

\* C6: no operation on an observer changes shared_cnt; constructing it from an
\* owner or copying it adds one to weak_cnt, moving it changes no count and
\* clears the source, destroying it takes one from weak_cnt; and the object
\* of a block with no owner left is destroyed whatever observers are alive.
C6_ObserverFrame ==
    /\ [](\A c \in CBs : Allocated(c) /\ cbs[c].ptr # Null /\ Owners(c) = {} =>
            objs[cbs[c].ptr].st = "destroyed")
    /\ [][/\ last'.op \in ObserverOps =>
                \A c \in CBs : cbs'[c].shared_cnt = cbs[c].shared_cnt
          /\ last'.op = "w_from_shared" =>
                \A j \in WPs, r \in SPs : WFromShared(j, r) /\ sp[r].cb # Null =>
                    WeakDelta(sp[r].cb, 1) /\ wp'[j].cb = sp[r].cb
          /\ last'.op = "w_copy" =>
                \A j \in WPs, r \in WPs : WCopyCtor(j, r) /\ wp[r].cb # Null =>
                    WeakDelta(wp[r].cb, 1) /\ wp'[j].cb = wp[r].cb
          /\ last'.op = "w_move" =>
                \A j \in WPs, r \in WPs : WMoveCtor(j, r) =>
                    /\ cbs' = cbs
                    /\ wp'[j] = wp[r] /\ wp'[r] = Live(NullPtr)
          /\ last'.op = "w_dtor" =>
                \A j \in WPs : WDtor(j) /\ wp[j].cb # Null =>
                    WeakDelta(wp[j].cb, -1)]_vars

\* C6 witness: an observer of a live object has just been copied.
C6_Witness ==
    /\ last.op = "w_copy"
    /\ \E c \in CBs : /\ Cardinality(Observers(c)) = 2 /\ cbs[c].weak_cnt = 2
                      /\ cbs[c].shared_cnt = 1 /\ Owners(c) # {}

\* C7: when the control block cannot be allocated, the adopting constructor
\* invokes the deleter once on the raw pointer and propagates the failure; no
\* owner and no block come into existence, and nothing else changes.
C7_AdoptFailure ==
    [][last'.op = "adopt" =>
          \A i \in SPs, isnull \in BOOLEAN : Adopt(i, isnull, TRUE) =>
              LET p == IF isnull THEN Null ELSE FreshObj
              IN /\ last'.exc = "bad_alloc" /\ last'.dcalls = <<p>>
                 /\ sp' = sp /\ wp' = wp /\ cbs' = cbs
                 /\ \A o \in Objs \ {p} : objs'[o] = objs[o]
                 /\ p # Null => objs'[p].st = "destroyed"]_vars

\* C7 witness: an adoption of a non-null pointer has just failed while
\* another owner exists.
C7_Witness ==
    /\ last.op = "adopt" /\ last.exc = "bad_alloc"
    /\ Len(last.dcalls) = 1 /\ last.dcalls[1] # Null
    /\ objs[last.dcalls[1]].st = "destroyed"
    /\ \E i \in SPs : sp[i].live /\ sp[i].cb # Null

\* C8: when the managed object's constructor throws in make_shared, the
\* failure is propagated, no owner is produced, no block stays allocated and
\* no hook runs.
C8_MakeSharedCtorFailure ==
    [][last'.op = "make_shared" =>
          \A i \in SPs : MakeShared(i, "ctor") =>
              /\ last'.exc = "ctor"
              /\ sp' = sp /\ wp' = wp /\ cbs' = cbs /\ objs' = objs
              /\ \A c \in CBs : cbs'[c].st = "live" => cbs[c].st = "live"]_vars

\* C8 witness: a make_shared has just failed in the object's constructor
\* while another owner exists.
C8_Witness ==
    /\ last.op = "make_shared" /\ last.exc = "ctor"
    /\ \E i \in SPs : sp[i].live /\ sp[i].cb # Null /\ use_count(sp[i]) = 1


\* C9: a move construction or move assignment gives the destination the raw
\* pointer and link of the source and leaves the source null; the transfer
\* changes no count; a move assignment takes one shared reference from the
\* block the destination held before, by the teardown of the destructor: the
\* object is destroyed if that was the last owner, and the block is freed if
\* both counts are then zero.
C9_Move ==
    [][/\ last'.op = "move" =>
             \A i \in SPs, r \in SPs : MoveCtor(i, r) =>
                 /\ sp'[i] = sp[r] /\ sp'[r] = Live(NullPtr)
                 /\ cbs' = cbs /\ objs' = objs
       /\ last'.op = "move_assign" =>
             \A i \in SPs, r \in SPs, ub \in BOOLEAN : MoveAssign(i, r, ub) /\ i # r =>
                 LET old == sp[i].cb
                     was == IF old = Null THEN NoBlock ELSE cbs[old]
                     now == IF old = Null THEN NoBlock ELSE cbs'[old]
                 IN /\ sp'[i] = sp[r] /\ sp'[r] = Live(NullPtr)
                    /\ \A c \in CBs \ {old} : cbs'[c] = cbs[c]
                    /\ old # Null =>
                          /\ now.shared_cnt = was.shared_cnt - 1
                          /\ now.del_calls = was.del_calls + (IF now.shared_cnt = 0 THEN 1 ELSE 0)
                          /\ was.ptr # Null =>
                                objs'[was.ptr].st =
                                    IF now.shared_cnt = 0 THEN "destroyed" ELSE "alive"
                          /\ now.st = "freed" <=> now.shared_cnt = 0 /\ now.weak_cnt = 0
                          /\ now.shared_cnt > 0 => now.weak_cnt = was.weak_cnt]_vars

\* C9 witness: an owner has just been move-assigned over the only owner of
\* another block, whose object is destroyed and which is freed.
C9_Witness ==
    /\ last.op = "move_assign"
    /\ \E c \in CBs : /\ cbs[c].st = "freed" /\ cbs[c].del_calls = 1
                      /\ cbs[c].ptr # Null /\ objs[cbs[c].ptr].st = "destroyed"
    /\ \E i \in SPs, r \in SPs :
          /\ sp[i].live /\ sp[i].cb # Null /\ cbs[sp[i].cb].st = "live"
          /\ use_count(sp[i]) = 1
          /\ sp[r] = Live(NullPtr)

\* C10: assigning an owning pointer to itself, by copy or by move, changes
\* nothing: not the pointer, not a count, not the object, not the block.
C10_SelfAssign ==
    [][last'.op = "self_assign" =>
          \A i \in SPs, ub \in BOOLEAN : CopyAssign(i, i, ub) \/ MoveAssign(i, i, ub) =>
              /\ sp' = sp /\ wp' = wp /\ cbs' = cbs /\ objs' = objs
              /\ faults' = faults]_vars

\* C10 witness: the only owner of a live object has just been assigned to
\* itself.
C10_Witness ==
    /\ last.op = "self_assign"
    /\ \E i \in SPs : /\ sp[i].live /\ sp[i].cb # Null /\ use_count(sp[i]) = 1
                      /\ cbs[sp[i].cb].st = "live" /\ cbs[sp[i].cb].del_calls = 0
                      /\ sp[i].ptr \in Objs /\ objs[sp[i].ptr].st = "alive"


\* C11: reset(raw) that cannot allocate the new control block leaves the
\* pointer with its old raw pointer and block, every count unchanged and the
\* old object alive (the deleter runs on the new raw pointer only); when it
\* succeeds the old block has one shared reference less and the pointer owns
\* the new block with use_count() = 1; reset() takes one shared reference
\* from the block held and leaves both fields null.
C11_Reset ==
    [][/\ last'.op = "reset_ptr" =>
             \A i \in SPs, isnull \in BOOLEAN, fail \in BOOLEAN, ub \in BOOLEAN :
                 ResetPtr(i, isnull, fail, ub) =>
                     LET old == sp[i].cb
                         new == FreshCB
                         p == IF isnull THEN Null ELSE FreshObj
                     IN IF fail
                        THEN /\ last'.exc = "bad_alloc" /\ last'.dcalls = <<p>>
                             /\ sp' = sp /\ wp' = wp /\ cbs' = cbs
                             /\ \A o \in Objs \ {p} : objs'[o] = objs[o]
                        ELSE /\ last'.exc = "none" /\ last'.dcalls = <<>>
                             /\ sp'[i] = Live([ptr |-> p, cb |-> new])
                             /\ use_count(sp[i])' = 1
                             /\ cbs'[new].st = "live" /\ cbs'[new].ptr = p
                             /\ p # Null => objs'[p].st = "alive"
                             /\ old # Null =>
                                   cbs'[old].shared_cnt = cbs[old].shared_cnt - 1
                             /\ \A c \in CBs \ {old, new} : cbs'[c] = cbs[c]
       /\ last'.op = "reset" =>
             \A i \in SPs, ub \in BOOLEAN : Reset(i, ub) =>
                 /\ sp'[i] = Live(NullPtr)
                 /\ sp[i].cb # Null =>
                       cbs'[sp[i].cb].shared_cnt = cbs[sp[i].cb].shared_cnt - 1
                 /\ \A c \in CBs \ {sp[i].cb} : cbs'[c] = cbs[c]]_vars

\* C11 witness: reset(raw) has just failed on the only owner of a live
\* object, which it still owns.
C11_Witness ==
    /\ last.op = "reset_ptr" /\ last.exc = "bad_alloc"
    /\ Len(last.dcalls) = 1 /\ last.dcalls[1] # Null
    /\ \E i \in SPs : /\ sp[i].live /\ sp[i].cb # Null /\ use_count(sp[i]) = 1
                      /\ cbs[sp[i].cb].st = "live" /\ cbs[sp[i].cb].del_calls = 0
                      /\ sp[i].ptr \in Objs /\ objs[sp[i].ptr].st = "alive"
                      /\ sp[i].ptr # last.dcalls[1]


\* The owners of block c whose raw pointer is not the one the block manages.
Aliases(c) == {i \in Owners(c) : sp[i].ptr # cbs[c].ptr}

\* C12: the aliasing constructor from an owner of a block stores the raw
\* pointer it is given, shares that block and adds one to its shared_cnt;
\* while any owner of a block is alive, alias or not, the block is not freed
\* and its object is alive; the hook runs at most once, in the step that
\* releases the last owner, and ends the object the block manages (the
\* deleter is given the adopted pointer, never the alias address).
C12_Aliasing ==
    /\ [](\A c \in CBs : Allocated(c) =>
            /\ Owners(c) # {} =>
                  /\ cbs[c].st = "live" /\ cbs[c].del_calls = 0 /\ cbs[c].dcalls = <<>>
                  /\ cbs[c].ptr # Null => objs[cbs[c].ptr].st = "alive"
            /\ cbs[c].del_calls <= 1
            /\ cbs[c].dcalls \in {<<>>, <<cbs[c].ptr>>})
    /\ []("double_destroy" \notin faults)
    /\ [][/\ last'.op = "alias" =>
                \A i \in SPs, r \in SPs, p \in AliasPtrs :
                    AliasCtor(i, r, p) /\ sp[r].cb # Null =>
                        /\ sp'[i] = Live([ptr |-> p, cb |-> sp[r].cb])
                        /\ cbs'[sp[r].cb].shared_cnt = cbs[sp[r].cb].shared_cnt + 1
                        /\ objs' = objs
          /\ \A c \in CBs : cbs'[c].del_calls # cbs[c].del_calls =>
                /\ Owners(c) # {} /\ Owners(c)' = {}
                /\ cbs[c].ptr # Null =>
                      objs[cbs[c].ptr].st = "alive" /\ objs'[cbs[c].ptr].st = "destroyed"]_vars

\* C12 witness: the original owner has just been destroyed and the only
\* owner left is an alias; the object is alive.
C12_Witness ==
    /\ last.op = "dtor"
    /\ \E c \in CBs : /\ Cardinality(Owners(c)) = 1 /\ Aliases(c) = Owners(c)
                      /\ cbs[c].ptr \in Objs /\ objs[cbs[c].ptr].st = "alive"
                      /\ cbs[c].st = "live" /\ cbs[c].shared_cnt = 1
                      /\ \A i \in Owners(c) : sp[i].ptr = SubObj


C14_NullAdoptCountZero ==
    [][last'.op = "adopt" =>
          \A i \in SPs : Adopt(i, TRUE, FALSE) => use_count(sp[i])' = 0]_vars

\* C14 as amended: the owner adopted from a null raw pointer has a control
\* block of its own and reports use_count() = 1, while a default-constructed
\* owner has no control block and reports 0.
C14_NullAdoptCountOne ==
    [][/\ last'.op = "adopt" =>
             \A i \in SPs : Adopt(i, TRUE, FALSE) =>
                 /\ sp'[i].ptr = Null /\ sp'[i].cb = FreshCB
                 /\ cbs[FreshCB].st = "unalloc" /\ cbs'[FreshCB].st = "live"
                 /\ cbs'[FreshCB].kind = "separate"
                 /\ use_count(sp[i])' = 1
       /\ last'.op = "default" =>
             \A i \in SPs : DefaultCtor(i) =>
                 sp'[i].cb = Null /\ use_count(sp[i])' = 0 /\ cbs' = cbs]_vars

\* C14 witness: a null raw pointer has just been adopted beside a
\* default-constructed owner: the two report 1 and 0.
C14_Witness ==
    /\ last.op = "adopt" /\ last.exc = "none"
    /\ \E i \in SPs, k \in SPs :
          /\ sp[i].live /\ sp[i].ptr = Null /\ sp[i].cb # Null
          /\ cbs[sp[i].cb].st = "live" /\ use_count(sp[i]) = 1
          /\ sp[k] = Live(NullPtr) /\ use_count(sp[k]) = 0


\* C15: for a block adopted from a null raw pointer the deleter has been
\* invoked once, on the null pointer, exactly when no shared reference is
\* left, and the block is freed, once, exactly when no observer is left
\* either; the destructor of an owner with no control block invokes no
\* deleter and frees nothing.
C15_NullAdoptRelease ==
    /\ [](\A c \in CBs : cbs[c].kind = "separate" /\ cbs[c].ptr = Null =>
            /\ cbs[c].dcalls = IF cbs[c].shared_cnt = 0 THEN <<Null>> ELSE <<>>
            /\ cbs[c].free_calls =
                  IF cbs[c].shared_cnt = 0 /\ cbs[c].weak_cnt = 0 THEN 1 ELSE 0
            /\ cbs[c].st = IF cbs[c].free_calls = 1 THEN "freed" ELSE "live")
    /\ [][last'.op = "dtor" =>
             \A i \in SPs, ub \in BOOLEAN : Dtor(i, ub) /\ sp[i].cb = Null =>
                 cbs' = cbs /\ objs' = objs /\ faults' = faults /\ last'.dcalls = <<>>]_vars

\* C15 witness: the only owner of a block adopted from a null raw pointer
\* has just been destroyed: one deleter call on null, and the block is freed.
C15_Witness ==
    /\ last.op = "dtor"
    /\ \E c \in CBs : /\ cbs[c].kind = "separate" /\ cbs[c].ptr = Null
                      /\ cbs[c].dcalls = <<Null>> /\ cbs[c].del_calls = 1
                      /\ cbs[c].st = "freed" /\ cbs[c].free_calls = 1


\* C16: no assertion of release_shared, release_weak or delete_object fails.
C16_NoAssertFails ==
    faults \cap {"assert_release_shared", "assert_release_weak", "assert_delete_object"} = {}

\* C16 witness: the last observer of a block has just been destroyed after
\* its last owner, so that release_shared, delete_object and release_weak
\* have all run on the block down to zero.
C16_Witness ==
    /\ last.op = "w_dtor"
    /\ \E c \in CBs : /\ cbs[c].st = "freed" /\ cbs[c].del_calls = 1
                      /\ cbs[c].shared_cnt = 0 /\ cbs[c].weak_cnt = 0
    /\ faults = {}


\* The weak_ptr members of alive objects linked to c.
MemberObservers(c) == {o \in Objs : objs[o].st = "alive" /\ objs[o].wcb = c}

\* C17: for every control block that has not been freed, shared_cnt is the
\* number of live owning pointers linked to it and weak_cnt the number of
\* live observers linked to it (those that are members of objects included).
C17_CountsMatch ==
    \A c \in CBs : cbs[c].st = "live" =>
        /\ cbs[c].shared_cnt = Cardinality(Owners(c))
        /\ cbs[c].weak_cnt = Cardinality(Observers(c)) + Cardinality(MemberObservers(c))

\* C17 witness: a block with two owners and two observers, one of them the
\* member of its object.
C17_Witness ==
    \E c \in CBs : /\ cbs[c].st = "live"
                   /\ cbs[c].shared_cnt = 2 /\ cbs[c].weak_cnt = 2
                   /\ Cardinality(Owners(c)) = 2
                   /\ Cardinality(Observers(c)) = 1 /\ Cardinality(MemberObservers(c)) = 1


\* C18: every live owner with a link refers to a block that is not freed and
\* whose object is not destroyed; every live observer with a link refers to
\* a block that is not freed.
C18_NoDanglingLink ==
    /\ \A i \in SPs : sp[i].live /\ sp[i].cb # Null =>
          /\ cbs[sp[i].cb].st = "live"
          /\ cbs[sp[i].cb].del_calls = 0
          /\ cbs[sp[i].cb].ptr # Null => objs[cbs[sp[i].cb].ptr].st = "alive"
    /\ \A j \in WPs : wp[j].live /\ wp[j].cb # Null => cbs[wp[j].cb].st = "live"
    /\ \A o \in Objs : objs[o].st = "alive" /\ objs[o].wcb # Null =>
          cbs[objs[o].wcb].st = "live"

\* C18 witness: the last owner of a block has just been destroyed while an
\* observer of the block is alive, beside an owner of another block.
C18_Witness ==
    /\ last.op = "dtor"
    /\ \E j \in WPs : /\ wp[j].live /\ wp[j].cb # Null
                      /\ cbs[wp[j].cb].shared_cnt = 0 /\ cbs[wp[j].cb].del_calls = 1
                      /\ cbs[wp[j].cb].st = "live"
    /\ \E i \in SPs : sp[i].live /\ sp[i].cb # Null /\ cbs[sp[i].cb].st = "live"


\* C19: also when the object's destructor releases observers of its own
\* block, no block is freed twice and no operation reads a block after it
\* has been freed.
C19_ReentrantRelease ==
    /\ \A c \in CBs : cbs[c].free_calls <= 1
    /\ faults \cap {"use_after_free", "double_free"} = {}


\* The owning pointers the threads hold, and whether no operation is in
\* progress.
RaceOwners == thr[1].owners + thr[2].owners
AllIdle == \A t \in Threads : thr[t].pc = "idle"

\* C20: in the two-thread runs the object is destroyed under a held owner,
\* or left alive with no owner, or lock() returns an owner of a destroyed
\* object, only after a count store has undone another thread's update or
\* lock()'s increment has followed a test gone stale; when neither has
\* happened and no operation is in progress, shared_cnt is the number of
\* owners held and the object is destroyed exactly when none is.
C20_RaceOutcomes ==
    /\ races = {} /\ AllIdle =>
          /\ cbs[SharedCB].shared_cnt = RaceOwners
          /\ objs[SharedObj].st = IF RaceOwners = 0 THEN "destroyed" ELSE "alive"
    /\ AllIdle /\ objs[SharedObj].st = "destroyed" /\ RaceOwners > 0 => races # {}
    /\ AllIdle /\ objs[SharedObj].st = "alive" /\ RaceOwners = 0 =>
          "lost_update" \in races
    /\ \A t \in Threads : thr[t].got = "destroyed" => races # {}

\* C20 witness: a lost update has let the object be destroyed while thread 1
\* still holds an owner of it, and the lock() of thread 2, running beside
\* the release that took the count to 0, has returned an owner of the
\* destroyed object.
C20_Witness ==
    /\ AllIdle
    /\ objs[SharedObj].st = "destroyed"
    /\ thr[1].owners > 0
    /\ thr[2].got = "destroyed" /\ thr[2].owners > 0
    /\ races = {"lost_update", "stale_check"}

\* Reachable as well: every owner is gone and the object has never been
\* destroyed, the count having been left above 0 by a lost update.
C20_Leak ==
    /\ AllIdle /\ RaceOwners = 0
    /\ objs[SharedObj].st = "alive" /\ cbs[SharedCB].del_calls = 0
    /\ cbs[SharedCB].shared_cnt > 0

\* Reachable as well: with no update lost, lock() has returned an owner of
\* the object another thread destroyed between lock()'s test and increment.
C20_LockOfDestroyed ==
    /\ AllIdle
    /\ races = {"stale_check"}
    /\ \E t \in Threads : thr[t].got = "destroyed" /\ thr[t].owners > 0

====
